---- MODULE Spec2Model ----
(***************************************************************************)
(* Model of the OpenAI MCP relay server (server.py): the credential check, *)
(* the three HTTP middleware and the way FastMCP nests them around the     *)
(* handler (Spec), one call of the generate tool (SpecGenerate), the life *)
(* of the process that runs the script (SpecProcess), requests handled at  *)
(* the same time (SpecConcurrent), and one call of the standalone proxy of *)
(* proxy.py (SpecProxy).  Each specification holds the variables of the    *)
(* others at their initial values.                                         *)
(*                                                                         *)
(* Text is modelled as a sequence of symbols.  A key is a sequence of      *)
(* characters.  An Accept header value is a sequence of tokens: a media    *)
(* type written in one casing, a comma or a blank.  Headers are the ASGI   *)
(* list of (name, value) pairs with lower-cased names.                     *)
(***************************************************************************)
EXTENDS Integers, Sequences, FiniteSets, TLC

\* ------------------------------------------------------------------ bounds
MaxKeyLen == 1
MaxAcceptLen == 3
MaxPromptLen == 2
MaxServed == 3
MaxInFlight == 2
MaxChunks == 3

\* ------------------------------------------------------------------- text
KeyChars == {"a", "b"}
AcceptTokens == {"application/json", "APPLICATION/JSON", "text/event-stream",
                 "text/html", ",", " "}

RECURSIVE StringsUpTo(_, _)
StringsUpTo(alphabet, n) ==
    IF n = 0 THEN {<<>>}
    ELSE LET shorter == StringsUpTo(alphabet, n - 1)
         IN  shorter \cup {Append(s, c) : s \in shorter, c \in alphabet}

Keys == StringsUpTo(KeyChars, MaxKeyLen)
NonEmptyKeys == Keys \ {<<>>}
AcceptValues == StringsUpTo(AcceptTokens, MaxAcceptLen)

StartsWith(s, prefix) ==
    /\ Len(s) >= Len(prefix)
    /\ SubSeq(s, 1, Len(prefix)) = prefix

\* s[n:]
DropFirst(s, n) == SubSeq(s, n + 1, Len(s))

\* str.lower() of one symbol
LowerToken(t) == IF t = "APPLICATION/JSON" THEN "application/json" ELSE t

\* str.lower()
Lower(s) == [i \in 1..Len(s) |-> LowerToken(s[i])]

\* str.strip()
RECURSIVE LStrip(_)
LStrip(s) == IF s # <<>> /\ Head(s) = " " THEN LStrip(Tail(s)) ELSE s

RECURSIVE RStrip(_)
RStrip(s) ==
    IF s # <<>> /\ s[Len(s)] = " " THEN RStrip(SubSeq(s, 1, Len(s) - 1)) ELSE s

Strip(s) == RStrip(LStrip(s))

\* str.split(","): the pieces between the commas, empty pieces included
RECURSIVE SplitComma(_)
SplitComma(s) ==
    IF \A i \in 1..Len(s) : s[i] # ","
    THEN <<s>>
    ELSE LET i == CHOOSE k \in 1..Len(s) :
                      s[k] = "," /\ \A m \in 1..(k - 1) : s[m] # ","
         IN  <<SubSeq(s, 1, i - 1)>> \o SplitComma(DropFirst(s, i))

\* ", ".join(values)
RECURSIVE JoinCommaSpace(_)
JoinCommaSpace(values) ==
    IF values = <<>> THEN <<>>
    ELSE IF Len(values) = 1 THEN values[1]
    ELSE values[1] \o <<",", " ">> \o JoinCommaSpace(Tail(values))

SelectNonEmpty(values) == SelectSeq(values, LAMBDA v : v # <<>>)

\* An optional text: Python's None, or a str
None == [some |-> FALSE, v |-> <<>>]
Some(v) == [some |-> TRUE, v |-> v]

\* Python truthiness of an optional text: neither None nor ""
Truthy(o) == o.some /\ o.v # <<>>

\* ---------------------------------------------------------------- headers
Header(name, value) == [name |-> name, value |-> value]

HasHeader(headers, name) == \E i \in 1..Len(headers) : headers[i].name = name

\* Headers.get(name, default): the value of the first line of that name
HeaderGet(headers, name, default) ==
    IF HasHeader(headers, name)
    THEN Some(headers[CHOOSE i \in 1..Len(headers) :
                         /\ headers[i].name = name
                         /\ \A k \in 1..(i - 1) : headers[k].name # name].value)
    ELSE default

\* MutableHeaders.__setitem__: the first line of that name takes the value and
\* the later lines of that name are deleted; with no such line one is appended
HeaderSet(headers, name, value) ==
    IF HasHeader(headers, name)
    THEN LET first == CHOOSE i \in 1..Len(headers) :
                          /\ headers[i].name = name
                          /\ \A k \in 1..(i - 1) : headers[k].name # name
             keep == {i \in 1..Len(headers) : headers[i].name # name \/ i = first}
             Pick[i \in 0..Len(headers)] ==
                 IF i = 0 THEN <<>>
                 ELSE IF i \notin keep THEN Pick[i - 1]
                 ELSE Append(Pick[i - 1],
                             IF i = first THEN Header(name, value) ELSE headers[i])
         IN  Pick[Len(headers)]
    ELSE Append(headers, Header(name, value))

\* ----------------------------------------------------------------- base64
Ord(c) == CASE c = "a" -> 97 [] c = "b" -> 98 [] c = ":" -> 58

B64Alphabet ==
    <<"A", "B", "C", "D", "E", "F", "G", "H", "I", "J", "K", "L", "M",
      "N", "O", "P", "Q", "R", "S", "T", "U", "V", "W", "X", "Y", "Z",
      "a", "b", "c", "d", "e", "f", "g", "h", "i", "j", "k", "l", "m",
      "n", "o", "p", "q", "r", "s", "t", "u", "v", "w", "x", "y", "z",
      "0", "1", "2", "3", "4", "5", "6", "7", "8", "9", "+", "/">>

B64Char(n) == B64Alphabet[(n % 64) + 1]

\* base64.b64encode(text.encode()).decode("ascii")
RECURSIVE B64Encode(_)
B64Encode(s) ==
    IF s = <<>> THEN <<>>
    ELSE IF Len(s) = 1
    THEN LET n == Ord(s[1]) * 65536
         IN  <<B64Char(n \div 262144), B64Char(n \div 4096), "=", "=">>
    ELSE IF Len(s) = 2
    THEN LET n == Ord(s[1]) * 65536 + Ord(s[2]) * 256
         IN  <<B64Char(n \div 262144), B64Char(n \div 4096),
               B64Char(n \div 64), "=">>
    ELSE LET n == Ord(s[1]) * 65536 + Ord(s[2]) * 256 + Ord(s[3])
         IN  <<B64Char(n \div 262144), B64Char(n \div 4096),
               B64Char(n \div 64), B64Char(n)>> \o B64Encode(DropFirst(s, 3))

BearerPrefix == <<"B", "e", "a", "r", "e", "r", " ">>
BasicPrefix == <<"B", "a", "s", "i", "c", " ">>

BearerHeader(key) == BearerPrefix \o key
BasicHeader(user, password) == BasicPrefix \o B64Encode(user \o <<":">> \o password)

\* ----------------------------------------------------------------- state
VARIABLES
    MCP_API_KEY,        \* the shared secret (server.py:45-50)
    MCP_API_KEY_HASH,   \* its digest (server.py:53)
    phase,              \* "idle", "down" (dispatching), "up" (returning), "done"
    depth,              \* which layer of the chain holds control
    request,            \* the request as the client sent it
    headers,            \* scope["headers"] as it is now
    ret,                \* what is travelling back up: a response or an exception
    calls,              \* per layer: the headers passed on at each call_next
    got,                \* per layer: what its call_next gave back
    gave,               \* per layer: what its dispatch returned or raised
    verifyLog,          \* the verify_api_key calls of this request, in order
    handlerSaw,         \* the headers the handler read, once it ran
    generateRuns,       \* runs of the generate tool for this request
    probe               \* a direct call of verify_api_key and its result

serverVars == <<MCP_API_KEY, MCP_API_KEY_HASH, phase, depth, request, headers,
                ret, calls, got, gave, verifyLog, handlerSaw, generateRuns,
                probe>>

\* one call of the generate tool
VARIABLES
    genPc,              \* where the coroutine stands
    genArgs,            \* prompt, model, temperature, max_tokens, ctx
    genLocal,           \* the locals e, text and finish
    genOut,             \* what the call returned or raised
    providerCalls,      \* calls of client.chat.completions.create
    ctxCalls            \* the ctx notifications sent, in order

genVars == <<genPc, genArgs, genLocal, genOut, providerCalls, ctxCalls>>

\* the process that runs server.py as a script
VARIABLES
    procPc,             \* "import", "main", "start", "serving", "exited"
    environ,            \* the environment and command line it was started with
    exitCode,           \* the exit status, once it has exited
    served,             \* requests answered so far
    lastEvent           \* what happened last to the process

procVars == <<procPc, environ, exitCode, served, lastEvent>>

\* requests handled at the same time
VARIABLES
    slots               \* per request in flight: where it stands and what it saw

concVars == <<slots>>

\* one call of mcp_proxy (proxy.py)
VARIABLES
    proxyPc,            \* where the coroutine stands
    proxyIn,            \* the inbound request
    httpxClient,        \* the httpx.AsyncClient: "none", "open", "closed"
    upstream,           \* the upstream response and what is left of its body
    callerGot,          \* what the caller of the proxy has received
    proxyExc,           \* the exception caught by the except clause
    lateReads           \* reads of the upstream body made after the close

proxyVars == <<proxyPc, proxyIn, httpxClient, upstream, callerGot, proxyExc,
               lateReads>>

vars == <<serverVars, genVars, procVars, concVars, proxyVars>>

\* ---------------------------------------------------------- credential check
\* hashlib.sha256(text.encode()).hexdigest(): a digest without collisions on
\* the keys of the model, the bytes read as a numeral in base 257
RECURSIVE Sha256Hex(_)
Sha256Hex(s) ==
    IF s = <<>> THEN 0
    ELSE Sha256Hex(SubSeq(s, 1, Len(s) - 1)) * 257 + Ord(s[Len(s)])

\* secrets.compare_digest
CompareDigest(a, b) == a = b

\* the variant that compares the lengths only
verify_api_key_length(provided_key) ==
    Truthy(provided_key) /\ Len(provided_key.v) = Len(MCP_API_KEY)

verify_api_key(provided_key) ==
    IF ~Truthy(provided_key) THEN FALSE
    ELSE CompareDigest(Sha256Hex(provided_key.v), MCP_API_KEY_HASH)

\* ------------------------------------------------ responses and exceptions
Response(status, media, text, json) ==
    [kind |-> "response", status |-> status, media |-> media, text |-> text,
     json |-> json]

\* a raised exception: its class and str(exc)
Raise(class, message) ==
    [kind |-> "raise", status |-> 0, media |-> class, text |-> message,
     json |-> {}]

NoRet == [kind |-> "none", status |-> 0, media |-> "", text |-> "", json |-> {}]

Unauthorized ==
    Response(401, "application/json", "",
             {<<"error", "Invalid or missing API key">>})

ClientDisconnected == Response(499, "text/plain", "Client disconnected", {})

InternalServerError(exc) ==
    Response(500, "application/json", "",
             {<<"error", "Internal server error">>, <<"detail", exc.text>>})

\* ------------------------------------------- ForceAcceptHeaderMiddleware
\* the variant that appends both media types whatever the client sent
NormalizeAcceptAlways(accept_header) ==
    LET pieces == SplitComma(accept_header)
        accept_values ==
            SelectNonEmpty([i \in 1..Len(pieces) |-> Strip(pieces[i])])
    IN  [updated |-> TRUE,
         accept_values |-> accept_values \o <<<<"application/json">>,
                                               <<"text/event-stream">>>>]

\* the variant whose second test is an elif of the first
NormalizeAcceptElif(accept_header) ==
    LET pieces == SplitComma(accept_header)
        accept_values ==
            SelectNonEmpty([i \in 1..Len(pieces) |-> Strip(pieces[i])])
        normalized == {Lower(accept_values[i]) : i \in 1..Len(accept_values)}
    IN  IF <<"application/json">> \notin normalized
        THEN [updated |-> TRUE,
              accept_values |-> Append(accept_values, <<"application/json">>)]
        ELSE IF <<"text/event-stream">> \notin normalized
        THEN [updated |-> TRUE,
              accept_values |-> Append(accept_values, <<"text/event-stream">>)]
        ELSE [updated |-> FALSE, accept_values |-> accept_values]

\* accept_values and updated after the two membership tests
NormalizeAccept(accept_header) ==
    LET pieces == SplitComma(accept_header)
        accept_values ==
            SelectNonEmpty([i \in 1..Len(pieces) |-> Strip(pieces[i])])
        normalized == {Lower(accept_values[i]) : i \in 1..Len(accept_values)}
        with_json ==
            IF <<"application/json">> \notin normalized
            THEN Append(accept_values, <<"application/json">>)
            ELSE accept_values
        with_sse ==
            IF <<"text/event-stream">> \notin normalized
            THEN Append(with_json, <<"text/event-stream">>)
            ELSE with_json
    IN  [updated |-> \/ <<"application/json">> \notin normalized
                     \/ <<"text/event-stream">> \notin normalized,
         accept_values |-> with_sse]

\* the variant that writes the header back whether or not it was updated
ForceAcceptHeadersAlwaysSet(type, path, hdrs) ==
    IF type = "http" /\ path = "/mcp"
    THEN LET n == NormalizeAccept(HeaderGet(hdrs, "accept", Some(<<>>)).v)
         IN  HeaderSet(hdrs, "accept", JoinCommaSpace(n.accept_values))
    ELSE hdrs

\* the variant that rewrites on every path
ForceAcceptHeadersAnyPath(type, path, hdrs) ==
    LET n == NormalizeAccept(HeaderGet(hdrs, "accept", Some(<<>>)).v)
    IN  IF n.updated
        THEN HeaderSet(hdrs, "accept", JoinCommaSpace(n.accept_values))
        ELSE hdrs

\* scope["headers"] when ForceAcceptHeaderMiddleware calls call_next
ForceAcceptHeaders(type, path, hdrs) ==
    IF type = "http" /\ path = "/mcp"
    THEN LET n == NormalizeAccept(HeaderGet(hdrs, "accept", Some(<<>>)).v)
         IN  IF n.updated
             THEN HeaderSet(hdrs, "accept", JoinCommaSpace(n.accept_values))
             ELSE hdrs
    ELSE hdrs

\* ---------------------------------------------------------- AuthMiddleware
Verified(candidate) == [candidate |-> candidate, result |-> verify_api_key(candidate)]

Admit == [admit |-> TRUE, verified |-> <<>>]

\* the variant that admits whoever sends an X-API-Key header
AuthDecisionAnyKey(type, path, hdrs) ==
    IF type # "http" \/ path \notin {"/mcp", "/sse"}
    THEN Admit
    ELSE [admit |-> Truthy(HeaderGet(hdrs, "x-api-key", None)),
          verified |-> <<>>]

\* the variant that rejects every request to a protected path
AuthDecisionRejectAll(type, path, hdrs) ==
    IF type # "http" \/ path \notin {"/mcp", "/sse"}
    THEN Admit
    ELSE [admit |-> FALSE, verified |-> <<>>]

\* the variant that protects every path
AuthDecisionAllPaths(type, path, hdrs) ==
    LET api_key == HeaderGet(hdrs, "x-api-key", None)
    IN  [admit |-> Truthy(api_key) /\ verify_api_key(api_key),
         verified |-> IF Truthy(api_key) THEN <<Verified(api_key)>> ELSE <<>>]

\* the variant that decides on the bearer token alone when there is one
AuthDecisionFirstWins(type, path, hdrs) ==
    IF type # "http" \/ path \notin {"/mcp", "/sse"}
    THEN Admit
    ELSE LET auth_header == HeaderGet(hdrs, "authorization", None)
             bearer == /\ Truthy(auth_header)
                       /\ StartsWith(auth_header.v, BearerPrefix)
             bearer_key == Some(DropFirst(auth_header.v, 7))
             api_key == HeaderGet(hdrs, "x-api-key", None)
         IN  IF bearer
             THEN [admit |-> verify_api_key(bearer_key),
                   verified |-> <<Verified(bearer_key)>>]
             ELSE [admit |-> Truthy(api_key) /\ verify_api_key(api_key),
                   verified |-> IF Truthy(api_key)
                                THEN <<Verified(api_key)>> ELSE <<>>]

\* whether dispatch calls call_next, and the verify_api_key calls it makes
AuthDecision(type, path, hdrs) ==
    IF type # "http" THEN Admit
    ELSE IF path \in {"/health", "/"} THEN Admit
    ELSE IF path \notin {"/mcp", "/sse"} THEN Admit
    ELSE LET auth_header == HeaderGet(hdrs, "authorization", None)
             bearer == /\ Truthy(auth_header)
                       /\ StartsWith(auth_header.v, BearerPrefix)
             bearer_key == Some(DropFirst(auth_header.v, 7))
             bearer_ok == bearer /\ verify_api_key(bearer_key)
             api_key == HeaderGet(hdrs, "x-api-key", None)
             header_tried == ~bearer_ok /\ Truthy(api_key)
         IN  [admit |-> bearer_ok \/ (header_tried /\ verify_api_key(api_key)),
              verified |->
                  (IF bearer THEN <<Verified(bearer_key)>> ELSE <<>>)
                  \o (IF header_tried THEN <<Verified(api_key)>> ELSE <<>>)]

\* -------------------------------------------------- ErrorHandlingMiddleware
\* what dispatch returns for what call_next returned or raised
\* the exception classes that derive from Exception; asyncio.CancelledError
\* derives from BaseException only
ExceptionClasses == {"ClosedResourceError", "Exception"}

\* the variant without the except clause for ClosedResourceError
TranslateErrorGeneric(r) ==
    IF r.kind # "raise" THEN r
    ELSE IF r.media \in ExceptionClasses THEN InternalServerError(r)
    ELSE r

\* the variant without the except clause for Exception
TranslateErrorClosedOnly(r) ==
    IF r.kind # "raise" THEN r
    ELSE IF r.media = "ClosedResourceError" THEN ClientDisconnected
    ELSE r

TranslateError(r) ==
    IF r.kind # "raise" THEN r
    ELSE IF r.media = "ClosedResourceError" THEN ClientDisconnected
    ELSE IF r.media \in ExceptionClasses THEN InternalServerError(r)
    ELSE r

\* ------------------------------------------------------------ the chain
\* a stack without AuthMiddleware
HTTP_MIDDLEWARE_NoAuth ==
    <<"ErrorHandlingMiddleware", "ForceAcceptHeaderMiddleware">>

\* a stack with the two inner layers exchanged
HTTP_MIDDLEWARE_AcceptFirst ==
    <<"ErrorHandlingMiddleware", "ForceAcceptHeaderMiddleware", "AuthMiddleware">>

\* outermost first
HTTP_MIDDLEWARE ==
    <<"ErrorHandlingMiddleware", "AuthMiddleware", "ForceAcceptHeaderMiddleware">>

Layers == {"ErrorHandlingMiddleware", "AuthMiddleware",
           "ForceAcceptHeaderMiddleware"}

Layer(d) == IF d \in 1..Len(HTTP_MIDDLEWARE) THEN HTTP_MIDDLEWARE[d] ELSE "handler"

\* ------------------------------------------------------------- requests
Paths == {"/mcp", "/sse", "/health", "/", "/other"}

\* BaseHTTPMiddleware hands dispatch the scopes of type "http" only
ScopeTypes == {"http"}

Passwords == {<<>>, <<"b">>}
SampleKey == <<"a">>

OptionalKeys == {None} \cup {Some(k) : k \in Keys}

AuthorizationValues ==
    {None}
    \cup {Some(BearerHeader(k)) : k \in Keys}
    \cup {Some(BasicHeader(k, pw)) : k \in Keys, pw \in Passwords}
    \cup {Some(k) : k \in Keys}

Line(name, o) == IF o.some THEN <<Header(name, o.v)>> ELSE <<>>

NoRequest ==
    [type |-> "http", path |-> "", headers |-> <<>>, query_api_key |-> None]

\* every combination of the credential carriers, on every path
CredentialRequests ==
    {[type |-> t, path |-> p,
      headers |-> Line("authorization", a) \o Line("x-api-key", x),
      query_api_key |-> q] :
        t \in ScopeTypes, p \in Paths, a \in AuthorizationValues,
        x \in OptionalKeys, q \in OptionalKeys}

\* an Accept value that lists three media types
MediaTypes == AcceptTokens \ {",", " "}
AcceptLists == {<<a, ",", b, ",", c>> : a \in MediaTypes, b \in MediaTypes,
                                       c \in MediaTypes}

\* no, one or two Accept lines, with an X-API-Key line after the first
AcceptLines ==
    {<<>>}
    \cup {<<v>> : v \in AcceptValues \cup AcceptLists}
    \cup {<<v, w>> : v \in StringsUpTo(AcceptTokens, 1),
                     w \in StringsUpTo(AcceptTokens, 1)}

AcceptRequests ==
    {[type |-> t, path |-> p,
      headers |->
          (IF l = <<>> THEN <<>> ELSE <<Header("accept", l[1])>>)
          \o Line("x-api-key", x)
          \o (IF Len(l) < 2 THEN <<>> ELSE <<Header("accept", l[2])>>),
      query_api_key |-> None] :
        t \in ScopeTypes, p \in Paths, l \in AcceptLines,
        x \in {None, Some(SampleKey)}}

Requests == CredentialRequests \cup AcceptRequests

\* what the handler may raise
HandlerFaults ==
    {Raise("ClosedResourceError", ""), Raise("Exception", "boom"),
     Raise("CancelledError", "")}

NoProbe == [called |-> FALSE, candidate |-> None, result |-> FALSE]

\* ============================================================== generate
\* the arguments of a call.  A prompt is a sequence of characters, a
\* temperature is counted in tenths (20 is 2.0), max_tokens is None or an int
PromptChars == {"h", " "}
Prompts == StringsUpTo(PromptChars, MaxPromptLen)
Models == {"gpt-4o-mini", "gpt-4o"}
Temperatures == {-1, 0, 2, 20, 21}
NoneInt == [some |-> FALSE, n |-> 0]
SomeInt(n) == [some |-> TRUE, n |-> n]
MaxTokens == {NoneInt} \cup {SomeInt(n) : n \in {-1, 0, 1}}
GenArgs ==
    [prompt : Prompts, model : Models, temperature : Temperatures,
     max_tokens : MaxTokens, ctx : BOOLEAN]
NoArgs ==
    [prompt |-> <<>>, model |-> "", temperature |-> 0, max_tokens |-> NoneInt,
     ctx |-> FALSE]

\* an exception: its class and str(e)
Exc(class, message) == [class |-> class, message |-> message]
NoExc == Exc("", "")

\* a ctx notification that fails, the client being gone
CtxFault == Exc("ClosedResourceError", "")
\* the provider library raising: network, authentication, quota
ProviderFault == Exc("APIError", "Connection error.")

\* what client.chat.completions.create gives: an exception, or a completion
\* with its choices, each a message content and a finish_reason that may be
\* None
NoReason == [some |-> FALSE, v |-> ""]
Reason(r) == [some |-> TRUE, v |-> r]
Choice(content, finish_reason) ==
    [content |-> content, finish_reason |-> finish_reason]
Choices ==
    {Choice(c, f) : c \in {None} \cup {Some(p) : p \in Prompts},
                    f \in {NoReason, Reason("stop"), Reason("length")}}
OtherChoice == Choice(Some(<<"h">>), Reason("length"))
Completion(choices) == [fault |-> FALSE, choices |-> choices]
ProviderOutcomes ==
    {[fault |-> TRUE, choices |-> <<>>], Completion(<<>>)}
        \cup {Completion(<<c>>) : c \in Choices}
        \cup {Completion(<<c, OtherChoice>>) : c \in Choices}

\* the variant that checks the prompt only
ValidationErrorPromptOnly(args) ==
    IF args.prompt = <<>> \/ Strip(args.prompt) = <<>>
    THEN Exc("ValueError", "Prompt cannot be empty")
    ELSE NoExc

\* the three checks of the arguments, in the order of the code
ValidationError(args) ==
    IF args.prompt = <<>> \/ Strip(args.prompt) = <<>>
    THEN Exc("ValueError", "Prompt cannot be empty")
    ELSE IF args.temperature < 0 \/ args.temperature > 20
    THEN Exc("ValueError", "Temperature must be between 0 and 2")
    ELSE IF args.max_tokens.some /\ args.max_tokens.n <= 0
    THEN Exc("ValueError", "max_tokens must be positive")
    ELSE NoExc

\* (choice.message.content or "").strip()
ChoiceText(choice) ==
    Strip(IF Truthy(choice.content) THEN choice.content.v ELSE <<>>)

\* choice.finish_reason or "stop"
ChoiceFinish(choice) ==
    IF choice.finish_reason.some /\ choice.finish_reason.v # ""
    THEN choice.finish_reason.v
    ELSE "stop"

\* what a call gives back: a mapping, with or without the key "error", or an
\* exception that leaves generate
NoOut ==
    [kind |-> "none", text |-> <<>>, model |-> "", finish_reason |-> "",
     error |-> FALSE, exc |-> NoExc]
SuccessResult(text, model, finish) ==
    [kind |-> "return", text |-> text, model |-> model,
     finish_reason |-> finish, error |-> FALSE, exc |-> NoExc]
\* f"Error: {str(e)}"
ErrorText(e) == <<"Error: ", e.message>>
ErrorResult(e, model) ==
    [kind |-> "return", text |-> ErrorText(e), model |-> model,
     finish_reason |-> "error", error |-> TRUE, exc |-> NoExc]
Raised(e) == [NoOut EXCEPT !.kind = "raise", !.exc = e]

NoLocal ==
    [resp |-> Completion(<<>>), e |-> NoExc, text |-> <<>>, finish |-> ""]

GenIdle ==
    /\ genPc = "idle"
    /\ genArgs = NoArgs
    /\ genLocal = NoLocal
    /\ genOut = NoOut
    /\ providerCalls = 0
    /\ ctxCalls = <<>>

\* FastMCP calls the tool
GenCall(args) ==
    /\ genPc = "idle"
    /\ genArgs' = args
    /\ genPc' = "info"
    /\ UNCHANGED <<serverVars, procVars, concVars, proxyVars, genLocal, genOut, providerCalls,
                   ctxCalls>>

\* control enters the except clause with the exception e
GenCatch(e) ==
    /\ genPc' = "except"
    /\ genLocal' = [genLocal EXCEPT !.e = e]

\* if ctx: await ctx.info("Dispatching prompt ...")
GenDispatchInfo(fails) ==
    /\ genPc = "info"
    /\ fails => genArgs.ctx
    /\ ctxCalls' = IF genArgs.ctx THEN Append(ctxCalls, "info") ELSE ctxCalls
    /\ IF fails
       THEN GenCatch(CtxFault)
       ELSE genPc' = "validate" /\ UNCHANGED genLocal
    /\ UNCHANGED <<serverVars, procVars, concVars, proxyVars, genArgs, genOut, providerCalls>>

\* the checks of prompt, temperature and max_tokens
GenValidate ==
    /\ genPc = "validate"
    /\ IF ValidationError(genArgs) # NoExc
       THEN GenCatch(ValidationError(genArgs))
       ELSE genPc' = "create" /\ UNCHANGED genLocal
    /\ UNCHANGED <<serverVars, procVars, concVars, proxyVars, genArgs, genOut, providerCalls,
                   ctxCalls>>

\* await client.chat.completions.create(...), then the first choice is read
GenCreate(outcome) ==
    /\ genPc = "create"
    /\ providerCalls' = providerCalls + 1
    /\ IF outcome.fault
       THEN GenCatch(ProviderFault)
       ELSE IF outcome.choices = <<>>
       THEN /\ genPc' = "except"
            /\ genLocal' = [genLocal EXCEPT
                                !.resp = outcome,
                                !.e = Exc("RuntimeError",
                                          "No response choices returned from OpenAI")]
       ELSE /\ genPc' = "success_info"
            /\ genLocal' = [genLocal EXCEPT
                                !.resp = outcome,
                                !.text = ChoiceText(outcome.choices[1]),
                                !.finish = ChoiceFinish(outcome.choices[1])]
    /\ UNCHANGED <<serverVars, procVars, concVars, proxyVars, genArgs, genOut, ctxCalls>>

\* if ctx: await ctx.info("Successfully generated ..."), then the return
GenSuccessInfo(fails) ==
    /\ genPc = "success_info"
    /\ fails => genArgs.ctx
    /\ ctxCalls' = IF genArgs.ctx THEN Append(ctxCalls, "info") ELSE ctxCalls
    /\ IF fails
       THEN GenCatch(CtxFault) /\ UNCHANGED genOut
       ELSE /\ genPc' = "returned"
            /\ genOut' = SuccessResult(genLocal.text, genArgs.model,
                                       genLocal.finish)
            /\ UNCHANGED genLocal
    /\ UNCHANGED <<serverVars, procVars, concVars, proxyVars, genArgs, providerCalls>>

\* except Exception as e: if ctx: await ctx.error(error_msg), then the
\* return of the error mapping.  An exception of ctx.error is raised inside
\* the except clause and leaves generate
GenExcept(fails) ==
    /\ genPc = "except"
    /\ fails => genArgs.ctx
    /\ ctxCalls' = IF genArgs.ctx THEN Append(ctxCalls, "error") ELSE ctxCalls
    /\ IF fails
       THEN genPc' = "raised" /\ genOut' = Raised(CtxFault)
       ELSE genPc' = "returned" /\ genOut' = ErrorResult(genLocal.e, genArgs.model)
    /\ UNCHANGED <<serverVars, procVars, concVars, proxyVars, genArgs, genLocal, providerCalls>>

GenerateNext ==
    \/ genPc = "idle" /\ \E args \in GenArgs : GenCall(args)
    \/ \E fails \in BOOLEAN : GenDispatchInfo(fails)
    \/ GenValidate
    \/ genPc = "create" /\ \E outcome \in ProviderOutcomes : GenCreate(outcome)
    \/ \E fails \in BOOLEAN : GenSuccessInfo(fails)
    \/ \E fails \in BOOLEAN : GenExcept(fails)

\* =============================================================== process
\* what the script is started with: whether OPENAI_API_KEY is set, the
\* transport chosen, whether FastMCP has run_async
Transports == {"streamable-http", "sse", "stdio"}
Environs ==
    [OPENAI_API_KEY : BOOLEAN, transport : Transports,
     has_run_async : BOOLEAN]
DefaultEnviron ==
    [OPENAI_API_KEY |-> TRUE, transport |-> "streamable-http",
     has_run_async |-> TRUE]

\* run_server_with_error_handling hands HTTP_MIDDLEWARE to FastMCP on the
\* HTTP transports; the fallback mcp.run(...) is called without it
MiddlewareInstalled(env) ==
    env.has_run_async /\ env.transport \in {"http", "streamable-http", "sse"}

\* what a request can do to a running server that stays inside dispatch
RequestEvents ==
    {"answered", "disconnect in dispatch", "exception in dispatch"}

\* what ends mcp.run_async or mcp.run once the server is up: a signal, a
\* KeyboardInterrupt, a ClosedResourceError or another exception that
\* surfaces from the call, or its plain return
ShutdownSignals == {"SIGINT", "SIGTERM", "KeyboardInterrupt"}
StopEvents ==
    ShutdownSignals \cup {"ClosedResourceError", "Exception", "returned"}

\* the exit status after a stop event.  signal_handler and the
\* KeyboardInterrupt clauses end with status 0.  With run_async a
\* ClosedResourceError is logged and run_server_with_error_handling returns,
\* so asyncio.run returns and the script ends with status 0; any other
\* exception is raised again and __main__ exits with 1.  In the fallback
\* the test is "ClosedResourceError" in str(e), and str(e) of a
\* ClosedResourceError is empty
ExitStatus(event, env) ==
    IF event \in ShutdownSignals \cup {"returned"} THEN 0
    ELSE IF event = "ClosedResourceError"
    THEN IF env.has_run_async THEN 0 ELSE 1
    ELSE 1

ProcIdle ==
    /\ procPc = "import"
    /\ exitCode = -1
    /\ served = 0
    /\ lastEvent = "none"

Exit(code, event) ==
    /\ procPc' = "exited"
    /\ exitCode' = code
    /\ lastEvent' = event

\* the module body: without OPENAI_API_KEY a RuntimeError leaves the script
ProcImport ==
    /\ procPc = "import"
    /\ IF environ.OPENAI_API_KEY
       THEN procPc' = "start" /\ UNCHANGED <<exitCode, lastEvent>>
       ELSE Exit(1, "OPENAI_API_KEY missing")
    /\ UNCHANGED <<serverVars, genVars, concVars, proxyVars, environ, served>>

\* __main__: the signal handlers are set and the server is started; it
\* comes up, or the start raises
ProcStart(up) ==
    /\ procPc = "start"
    /\ IF up
       THEN procPc' = "serving" /\ lastEvent' = "started" /\ UNCHANGED exitCode
       ELSE Exit(1, "start failed")
    /\ UNCHANGED <<serverVars, genVars, concVars, proxyVars, environ, served>>

\* a request is handled
ProcServe(event) ==
    /\ procPc = "serving"
    /\ served < MaxServed
    /\ event # "answered" => MiddlewareInstalled(environ)
    /\ served' = served + 1
    /\ lastEvent' = event
    /\ UNCHANGED <<serverVars, genVars, concVars, proxyVars, environ, procPc, exitCode>>

\* mcp.run_async or mcp.run ends
ProcStop(event) ==
    /\ procPc = "serving"
    /\ event = "returned" => environ.transport = "stdio"
    /\ Exit(ExitStatus(event, environ), event)
    /\ UNCHANGED <<serverVars, genVars, concVars, proxyVars, environ, served>>

ProcessNext ==
    \/ ProcImport
    \/ \E up \in BOOLEAN : ProcStart(up)
    \/ \E event \in RequestEvents : ProcServe(event)
    \/ \E event \in StopEvents : ProcStop(event)

\* ==================================================== requests in flight
\* the requests the server handles at the same time, numbered
Slots == 1..MaxInFlight

\* a request in flight: its place in the chain, its scope's headers and what
\* the layers and the generate tool did for it
NoSlot ==
    [phase |-> "idle", depth |-> 0, request |-> NoRequest, headers |-> <<>>,
     ret |-> NoRet, decided |-> FALSE, admit |-> FALSE, forwarded |-> <<>>,
     saw |-> <<>>, args |-> NoArgs, outcome |-> Completion(<<>>),
     result |-> NoOut]

ConcIdle == slots = [i \in Slots |-> NoSlot]

\* ================================================================= proxy
\* the inbound request: whether reading its body fails, and its Accept header
NoInbound == [body_fails |-> FALSE, accept |-> None]
Inbounds ==
    [body_fails : BOOLEAN,
     accept : {None, Some(<<"application/json">>), Some(<<"text/html">>)}]

\* the request sent on and the response of the target: its status and the
\* chunks of its body not read yet
NoUpstream == [accept |-> None, host |-> "", status |-> 0, chunks |-> 0]
UpstreamAnswers == [status : {200, 401, 500}, chunks : 0..MaxChunks]

\* what the caller has received: nothing, a JSON body, or a stream
NoCaller == [kind |-> "none", status |-> 0, detail |-> "", chunks |-> 0]

\* FastAPI sends the value a path operation returns as the JSON body of a
\* response with its default status, 200; of a returned HTTPException the
\* body holds the attributes status_code and detail
ReturnedValue(detail) ==
    [kind |-> "json", status |-> 200, detail |-> detail, chunks |-> 0]

ProxyIdle ==
    /\ proxyPc = "idle"
    /\ proxyIn = NoInbound
    /\ httpxClient = "none"
    /\ upstream = NoUpstream
    /\ callerGot = NoCaller
    /\ proxyExc = NoExc
    /\ lateReads = 0

\* ----------------------------------------------------------------- Init
\* MCP_API_KEY from the environment, or a generated token when it is unset
\* or empty
ConfiguredKeys(env) == IF Truthy(env) THEN {env.v} ELSE NonEmptyKeys

Idle ==
    /\ phase = "idle"
    /\ depth = 0
    /\ request = NoRequest
    /\ headers = <<>>
    /\ ret = NoRet
    /\ calls = [l \in Layers |-> <<>>]
    /\ got = [l \in Layers |-> NoRet]
    /\ gave = [l \in Layers |-> NoRet]
    /\ verifyLog = <<>>
    /\ handlerSaw = <<>>
    /\ generateRuns = 0

Init ==
    /\ \E env \in OptionalKeys : MCP_API_KEY \in ConfiguredKeys(env)
    /\ MCP_API_KEY_HASH = Sha256Hex(MCP_API_KEY)
    /\ Idle
    /\ probe = NoProbe
    /\ GenIdle
    /\ environ = DefaultEnviron
    /\ ProcIdle
    /\ ConcIdle
    /\ ProxyIdle

config == <<MCP_API_KEY, MCP_API_KEY_HASH>>

\* -------------------------------------------------------------- actions
\* a test calls verify_api_key directly
VerifyDirect(candidate) ==
    /\ phase = "idle"
    /\ probe' = [called |-> TRUE, candidate |-> candidate,
                 result |-> verify_api_key(candidate)]
    /\ UNCHANGED <<config, genVars, procVars, concVars, proxyVars, phase, depth, request, headers, ret, calls, got,
                   gave, verifyLog, handlerSaw, generateRuns>>

\* the server accepts a request and enters the outermost layer
Arrive(r) ==
    /\ phase = "idle"
    /\ request' = r
    /\ headers' = r.headers
    /\ phase' = "down"
    /\ depth' = 1
    /\ probe' = NoProbe
    /\ UNCHANGED <<config, genVars, procVars, concVars, proxyVars, ret, calls, got, gave, verifyLog, handlerSaw,
                   generateRuns>>

\* a layer calls call_next(request)
CallNext(layer, hdrs) ==
    /\ calls' = [calls EXCEPT ![layer] = Append(@, hdrs)]
    /\ depth' = depth + 1
    /\ UNCHANGED <<phase, ret, got, gave>>

\* a layer returns or raises r to its caller
Return(layer, r) ==
    /\ ret' = r
    /\ gave' = [gave EXCEPT ![layer] = r]
    /\ depth' = depth - 1
    /\ phase' = IF depth = 1 THEN "done" ELSE "up"

ErrorHandlingDispatch ==
    /\ phase = "down"
    /\ Layer(depth) = "ErrorHandlingMiddleware"
    /\ CallNext("ErrorHandlingMiddleware", headers)
    /\ UNCHANGED <<config, genVars, procVars, concVars, proxyVars, request, headers, verifyLog, handlerSaw,
                   generateRuns, probe>>

ErrorHandlingReturn ==
    /\ phase = "up"
    /\ Layer(depth) = "ErrorHandlingMiddleware"
    /\ got' = [got EXCEPT !["ErrorHandlingMiddleware"] = ret]
    /\ Return("ErrorHandlingMiddleware", TranslateError(ret))
    /\ UNCHANGED <<config, genVars, procVars, concVars, proxyVars, request, headers, calls, verifyLog, handlerSaw,
                   generateRuns, probe>>

AuthDispatch ==
    /\ phase = "down"
    /\ Layer(depth) = "AuthMiddleware"
    /\ LET d == AuthDecision(request.type, request.path, headers)
       IN  /\ verifyLog' = verifyLog \o d.verified
           /\ IF d.admit
              THEN CallNext("AuthMiddleware", headers)
              ELSE Return("AuthMiddleware", Unauthorized)
                   /\ UNCHANGED <<calls, got>>
    /\ UNCHANGED <<config, genVars, procVars, concVars, proxyVars, request, headers, handlerSaw, generateRuns, probe>>

AuthReturn ==
    /\ phase = "up"
    /\ Layer(depth) = "AuthMiddleware"
    /\ got' = [got EXCEPT !["AuthMiddleware"] = ret]
    /\ Return("AuthMiddleware", ret)
    /\ UNCHANGED <<config, genVars, procVars, concVars, proxyVars, request, headers, calls, verifyLog, handlerSaw,
                   generateRuns, probe>>

ForceAcceptDispatch ==
    /\ phase = "down"
    /\ Layer(depth) = "ForceAcceptHeaderMiddleware"
    /\ headers' = ForceAcceptHeaders(request.type, request.path, headers)
    /\ CallNext("ForceAcceptHeaderMiddleware", headers')
    /\ UNCHANGED <<config, genVars, procVars, concVars, proxyVars, request, verifyLog, handlerSaw, generateRuns, probe>>

ForceAcceptReturn ==
    /\ phase = "up"
    /\ Layer(depth) = "ForceAcceptHeaderMiddleware"
    /\ got' = [got EXCEPT !["ForceAcceptHeaderMiddleware"] = ret]
    /\ Return("ForceAcceptHeaderMiddleware", ret)
    /\ UNCHANGED <<config, genVars, procVars, concVars, proxyVars, request, headers, calls, verifyLog, handlerSaw,
                   generateRuns, probe>>

\* what the routed endpoint answers when nothing fails: health_check at
\* /health, the MCP endpoint at /mcp and /sse, no route elsewhere
Routed(path) ==
    IF path = "/health"
    THEN Response(200, "application/json", "", {<<"status", "ok">>})
    ELSE IF path \in {"/mcp", "/sse"}
    THEN Response(200, "mcp", "", {})
    ELSE Response(404, "text/plain", "Not Found", {})

\* the FastMCP application under the middleware: it answers or raises, and
\* on the MCP endpoint the request may be a call of the generate tool
Handler(outcome, tool_call) ==
    /\ phase = "down"
    /\ Layer(depth) = "handler"
    /\ tool_call => request.type = "http" /\ request.path \in {"/mcp", "/sse"}
    /\ handlerSaw' = <<headers>>
    /\ generateRuns' = IF tool_call THEN generateRuns + 1 ELSE generateRuns
    /\ ret' = outcome
    /\ depth' = depth - 1
    /\ phase' = IF depth = 1 THEN "done" ELSE "up"
    /\ UNCHANGED <<config, genVars, procVars, concVars, proxyVars, request, headers, calls, got, gave, verifyLog, probe>>

\* the response is sent; the request's state is dropped
Finish ==
    /\ phase = "done"
    /\ phase' = "idle"
    /\ depth' = 0
    /\ request' = NoRequest
    /\ headers' = <<>>
    /\ ret' = NoRet
    /\ calls' = [l \in Layers |-> <<>>]
    /\ got' = [l \in Layers |-> NoRet]
    /\ gave' = [l \in Layers |-> NoRet]
    /\ verifyLog' = <<>>
    /\ handlerSaw' = <<>>
    /\ generateRuns' = 0
    /\ UNCHANGED <<config, genVars, procVars, concVars, proxyVars, probe>>

Next ==
    \/ phase = "idle" /\ \E c \in OptionalKeys : VerifyDirect(c)
    \/ phase = "idle" /\ \E r \in Requests : Arrive(r)
    \/ ErrorHandlingDispatch
    \/ ErrorHandlingReturn
    \/ AuthDispatch
    \/ AuthReturn
    \/ ForceAcceptDispatch
    \/ ForceAcceptReturn
    \/ /\ phase = "down"
       /\ \E tool_call \in BOOLEAN :
              \E outcome \in {Routed(request.path)} \cup HandlerFaults :
                  Handler(outcome, tool_call)
    \/ Finish

Spec == Init /\ [][Next]_vars

\* one call of generate, with every behaviour of the provider and of ctx
SpecGenerate == Init /\ [][GenerateNext]_vars

\* the life of the process, from every environment it can be started with
ProcessInit ==
    /\ \E env \in OptionalKeys : MCP_API_KEY \in ConfiguredKeys(env)
    /\ MCP_API_KEY_HASH = Sha256Hex(MCP_API_KEY)
    /\ Idle
    /\ probe = NoProbe
    /\ GenIdle
    /\ environ \in Environs
    /\ ProcIdle
    /\ ConcIdle
    /\ ProxyIdle

SpecProcess == ProcessInit /\ [][ProcessNext]_vars

\* ---------------------------------------------------------------- proxy
ProxyFrame == UNCHANGED <<serverVars, genVars, procVars, concVars>>

\* control enters the except clause with the exception e
ProxyCatch(e) ==
    /\ proxyPc' = "except"
    /\ proxyExc' = e

\* a client posts to /mcp of the proxy
ProxyCall(inbound) ==
    /\ proxyPc = "idle"
    /\ proxyIn' = inbound
    /\ proxyPc' = "body"
    /\ UNCHANGED <<httpxClient, upstream, callerGot, proxyExc, lateReads>>
    /\ ProxyFrame

\* body = await request.body(), then the two headers are set
ProxyReadBody ==
    /\ proxyPc = "body"
    /\ IF proxyIn.body_fails
       THEN ProxyCatch(Exc("ClientDisconnect", "")) /\ UNCHANGED upstream
       ELSE /\ proxyPc' = "open"
            /\ upstream' =
                   [upstream EXCEPT
                        !.accept = Some(<<"application/json", ",", " ",
                                          "text/event-stream">>),
                        !.host = "localhost:8000"]
            /\ UNCHANGED proxyExc
    /\ UNCHANGED <<proxyIn, httpxClient, callerGot, lateReads>>
    /\ ProxyFrame

\* async with httpx.AsyncClient() as client
ProxyOpenClient ==
    /\ proxyPc = "open"
    /\ httpxClient' = "open"
    /\ proxyPc' = "send"
    /\ UNCHANGED <<proxyIn, upstream, callerGot, proxyExc, lateReads>>
    /\ ProxyFrame

\* await client.send(mcp_request, stream=True): the target answers, its body
\* unread, or the call raises and the async with block closes the client
ProxySend(fails, answer) ==
    /\ proxyPc = "send"
    /\ IF fails
       THEN /\ ProxyCatch(Exc("ConnectError", "All connection attempts failed"))
            /\ httpxClient' = "closed"
            /\ UNCHANGED upstream
       ELSE /\ proxyPc' = "return"
            /\ upstream' = [upstream EXCEPT !.status = answer.status,
                                            !.chunks = answer.chunks]
            /\ UNCHANGED <<httpxClient, proxyExc>>
    /\ UNCHANGED <<proxyIn, callerGot, lateReads>>
    /\ ProxyFrame

\* return StreamingResponse(mcp_response.aiter_bytes(), ...): the return
\* leaves the async with block, which closes the client, before the
\* iterator has been started
ProxyReturn ==
    /\ proxyPc = "return"
    /\ httpxClient' = "closed"
    /\ callerGot' = [kind |-> "stream", status |-> upstream.status,
                     detail |-> "", chunks |-> 0]
    /\ proxyPc' = "streaming"
    /\ UNCHANGED <<proxyIn, upstream, proxyExc, lateReads>>
    /\ ProxyFrame

\* Starlette takes the next chunk from mcp_response.aiter_bytes().  Read
\* through a closed client the chunk comes from what was buffered, or the
\* read raises and the stream to the caller breaks off
ProxyStream(delivered) ==
    /\ proxyPc = "streaming"
    /\ delivered \/ (httpxClient = "closed" /\ upstream.chunks > 0)
    /\ lateReads' = IF httpxClient = "closed" /\ upstream.chunks > 0
                    THEN lateReads + 1 ELSE lateReads
    /\ IF upstream.chunks = 0
       THEN proxyPc' = "done" /\ UNCHANGED <<upstream, callerGot>>
       ELSE IF delivered
       THEN /\ upstream' = [upstream EXCEPT !.chunks = @ - 1]
            /\ callerGot' = [callerGot EXCEPT !.chunks = @ + 1]
            /\ UNCHANGED proxyPc
       ELSE /\ proxyPc' = "done"
            /\ callerGot' = [callerGot EXCEPT !.kind = "broken stream"]
            /\ UNCHANGED upstream
    /\ UNCHANGED <<proxyIn, httpxClient, proxyExc>>
    /\ ProxyFrame

\* except Exception as e: return HTTPException(status_code=500, ...): the
\* exception object is returned, not raised
ProxyExcept ==
    /\ proxyPc = "except"
    /\ callerGot' = ReturnedValue(proxyExc.message)
    /\ proxyPc' = "done"
    /\ UNCHANGED <<proxyIn, httpxClient, upstream, proxyExc, lateReads>>
    /\ ProxyFrame

ProxyNext ==
    \/ \E inbound \in Inbounds : ProxyCall(inbound)
    \/ ProxyReadBody
    \/ ProxyOpenClient
    \/ \E answer \in UpstreamAnswers : ProxySend(FALSE, answer)
    \/ ProxySend(TRUE, [status |-> 0, chunks |-> 0])
    \/ ProxyReturn
    \/ \E delivered \in BOOLEAN : ProxyStream(delivered)
    \/ ProxyExcept

\* one call of mcp_proxy, with every behaviour of the caller and the target
SpecProxy == Init /\ [][ProxyNext]_vars

\* ---------------------------------------------------- requests in flight
\* the requests of the clients that are served at the same time
ConcRequests ==
    {[type |-> "http", path |-> p,
      headers |-> <<Header("accept", a)>> \o Line("x-api-key", x),
      query_api_key |-> None] :
        p \in {"/mcp", "/sse"},
        a \in {<<"application/json">>,
               <<"APPLICATION/JSON", ",", "text/event-stream">>},
        x \in {None, Some(SampleKey)}}

\* the arguments of their generate calls and what the provider answers
ConcArgs ==
    {[prompt |-> pr, model |-> "gpt-4o-mini", temperature |-> 2,
      max_tokens |-> NoneInt, ctx |-> FALSE] : pr \in {<<>>, <<"h">>}}
ConcOutcomes ==
    {[fault |-> TRUE, choices |-> <<>>],
     Completion(<<Choice(Some(<<"h", " ">>), NoReason)>>)}

\* what generate returns when no ctx is given
GenerateResult(args, outcome) ==
    IF ValidationError(args) # NoExc
    THEN ErrorResult(ValidationError(args), args.model)
    ELSE IF outcome.fault THEN ErrorResult(ProviderFault, args.model)
    ELSE IF outcome.choices = <<>>
    THEN ErrorResult(Exc("RuntimeError",
                         "No response choices returned from OpenAI"),
                     args.model)
    ELSE SuccessResult(ChoiceText(outcome.choices[1]), args.model,
                       ChoiceFinish(outcome.choices[1]))

\* a variant in which every dispatch wraps the scope of the first request
TargetScopeFirst(i) == 1

\* MutableHeaders(scope=request.scope): the scope whose headers the dispatch
\* of request i reads and rewrites is its own
TargetScope(i) == i

\* what stays as it is while the requests in flight move
ConcFrame == UNCHANGED <<serverVars, genVars, procVars, proxyVars>>

ConcArrive(i, r) ==
    /\ slots[i].phase = "idle"
    /\ slots' = [slots EXCEPT ![i] = [NoSlot EXCEPT !.phase = "down",
                                                     !.depth = 1,
                                                     !.request = r,
                                                     !.headers = r.headers]]
    /\ ConcFrame

ConcErrorHandling(i) ==
    /\ slots[i].phase = "down"
    /\ Layer(slots[i].depth) = "ErrorHandlingMiddleware"
    /\ slots' = [slots EXCEPT ![i].depth = @ + 1]
    /\ ConcFrame

ConcAuth(i) ==
    /\ slots[i].phase = "down"
    /\ Layer(slots[i].depth) = "AuthMiddleware"
    /\ LET d == AuthDecision(slots[i].request.type, slots[i].request.path,
                             slots[i].headers)
       IN  slots' =
               IF d.admit
               THEN [slots EXCEPT ![i].decided = TRUE, ![i].admit = TRUE,
                                  ![i].depth = @ + 1]
               ELSE [slots EXCEPT ![i].decided = TRUE, ![i].admit = FALSE,
                                  ![i].ret = Unauthorized, ![i].phase = "up",
                                  ![i].depth = @ - 1]
    /\ ConcFrame

ConcForceAccept(i) ==
    /\ slots[i].phase = "down"
    /\ Layer(slots[i].depth) = "ForceAcceptHeaderMiddleware"
    /\ LET t == TargetScope(i)
           written ==
               [slots EXCEPT ![t].headers =
                   ForceAcceptHeaders(slots[i].request.type,
                                      slots[i].request.path, slots[t].headers)]
       IN  slots' = [written EXCEPT ![i].forwarded = <<written[i].headers>>,
                                    ![i].depth = @ + 1]
    /\ ConcFrame

\* the handler runs generate up to its await of the provider
ConcHandler(i, args) ==
    /\ slots[i].phase = "down"
    /\ Layer(slots[i].depth) = "handler"
    /\ slots' =
           IF ValidationError(args) # NoExc
           THEN [slots EXCEPT ![i].saw = <<slots[i].headers>>,
                              ![i].args = args,
                              ![i].result = GenerateResult(args, Completion(<<>>)),
                              ![i].ret = Routed(slots[i].request.path),
                              ![i].phase = "up",
                              ![i].depth = @ - 1]
           ELSE [slots EXCEPT ![i].saw = <<slots[i].headers>>,
                              ![i].args = args,
                              ![i].phase = "awaiting"]
    /\ ConcFrame

\* the provider answers and generate returns
ConcProviderReply(i, outcome) ==
    /\ slots[i].phase = "awaiting"
    /\ slots' = [slots EXCEPT ![i].outcome = outcome,
                              ![i].result = GenerateResult(slots[i].args, outcome),
                              ![i].ret = Routed(slots[i].request.path),
                              ![i].phase = "up",
                              ![i].depth = @ - 1]
    /\ ConcFrame

\* the layers around the one that answered return, the outermost last
ConcReturn(i) ==
    /\ slots[i].phase = "up"
    /\ slots' = [slots EXCEPT
                     ![i].ret =
                         IF \E d \in 1..slots[i].depth :
                                Layer(d) = "ErrorHandlingMiddleware"
                         THEN TranslateError(@) ELSE @,
                     ![i].depth = 0,
                     ![i].phase = "done"]
    /\ ConcFrame

\* the response is sent
ConcFinish(i) ==
    /\ slots[i].phase = "done"
    /\ slots' = [slots EXCEPT ![i] = NoSlot]
    /\ ConcFrame

ConcurrentNext ==
    \/ \E i \in Slots : \E r \in ConcRequests : ConcArrive(i, r)
    \/ \E i \in Slots : ConcErrorHandling(i)
    \/ \E i \in Slots : ConcAuth(i)
    \/ \E i \in Slots : ConcForceAccept(i)
    \/ \E i \in Slots : \E args \in ConcArgs : ConcHandler(i, args)
    \/ \E i \in Slots : \E outcome \in ConcOutcomes : ConcProviderReply(i, outcome)
    \/ \E i \in Slots : ConcReturn(i)
    \/ \E i \in Slots : ConcFinish(i)

\* requests handled at the same time, in every interleaving of their steps
ConcurrentInit == Init /\ MCP_API_KEY = SampleKey

SpecConcurrent == ConcurrentInit /\ [][ConcurrentNext]_vars

\* ======================================================== properties
Protected == request.type = "http" /\ request.path \in {"/mcp", "/sse"}

\* AuthMiddleware.dispatch has decided: it called call_next or it returned
AuthDecided ==
    calls["AuthMiddleware"] # <<>> \/ gave["AuthMiddleware"] # NoRet

\* ForceAcceptHeaderMiddleware.dispatch has called call_next
AcceptForwarded == calls["ForceAcceptHeaderMiddleware"] # <<>>

Authorization == HeaderGet(request.headers, "authorization", None)
XApiKey == HeaderGet(request.headers, "x-api-key", None)

\* the candidates the four carriers of the request yield
BearerCandidates ==
    IF Authorization.some /\ StartsWith(Authorization.v, BearerPrefix)
    THEN {DropFirst(Authorization.v, Len(BearerPrefix))}
    ELSE {}

BasicCandidates ==
    {k \in Keys : \E pw \in Passwords :
        Authorization = Some(BasicHeader(k, pw))}

HeaderCandidates == IF XApiKey.some THEN {XApiKey.v} ELSE {}

QueryCandidates ==
    IF request.query_api_key.some THEN {request.query_api_key.v} ELSE {}

Candidates ==
    BearerCandidates \cup BasicCandidates \cup HeaderCandidates
    \cup QueryCandidates

\* C1: a request to a protected path none of whose carriers yields a
\* candidate verify_api_key accepts gets the 401 JSON response from
\* AuthMiddleware, which never calls call_next for it.
C1_RejectsUnverified ==
    (/\ AuthDecided
     /\ Protected
     /\ \A c \in Candidates : ~verify_api_key(Some(c)))
    => /\ gave["AuthMiddleware"] = Unauthorized
       /\ gave["AuthMiddleware"].status = 401
       /\ calls["AuthMiddleware"] = <<>>
       /\ handlerSaw = <<>>

\* a wrong bearer token and no other carrier, rejected
C1_Witness ==
    /\ Protected
    /\ \E k \in NonEmptyKeys :
           /\ k # MCP_API_KEY
           /\ request.headers = <<Header("authorization", BearerHeader(k))>>
    /\ request.query_api_key = None
    /\ gave["AuthMiddleware"] = Unauthorized

\* C2: verify_api_key returns true exactly for the configured secret, and
\* false for every other candidate, the empty text and None included.
C2_VerifyExact ==
    /\ probe.called => (probe.result <=> probe.candidate = Some(MCP_API_KEY))
    /\ \A i \in 1..Len(verifyLog) :
           verifyLog[i].result <=> verifyLog[i].candidate = Some(MCP_API_KEY)

\* the secret was accepted
C2_Witness ==
    /\ probe.called
    /\ probe.candidate = Some(MCP_API_KEY)
    /\ probe.result

\* C3: a request to a protected path with Authorization: Bearer <secret>
\* is admitted: AuthMiddleware calls call_next once and returns what it
\* gave back, unchanged.
C3_BearerAdmitted ==
    (/\ AuthDecided
     /\ Protected
     /\ Authorization = Some(BearerHeader(MCP_API_KEY)))
    => /\ Len(calls["AuthMiddleware"]) = 1
       /\ gave["AuthMiddleware"] # NoRet =>
              /\ gave["AuthMiddleware"] = got["AuthMiddleware"]
              /\ got["AuthMiddleware"] = gave["ForceAcceptHeaderMiddleware"]

\* the bearer request was answered by the handler through AuthMiddleware
C3_Witness ==
    /\ Protected
    /\ Authorization = Some(BearerHeader(MCP_API_KEY))
    /\ handlerSaw # <<>>
    /\ gave["AuthMiddleware"] = Routed(request.path)

\* C4: a request to a protected path whose only credential is
\* Authorization: Basic base64(secret:password) is admitted.
C4_BasicAdmitted ==
    (/\ AuthDecided
     /\ Protected
     /\ \E pw \in Passwords :
            request.headers =
                <<Header("authorization", BasicHeader(MCP_API_KEY, pw))>>
     /\ request.query_api_key = None)
    => Len(calls["AuthMiddleware"]) = 1

\* C5: a request to a protected path with the secret in the query parameter
\* api_key only, and no credential header, is admitted.
C5_QueryAdmitted ==
    (/\ AuthDecided
     /\ Protected
     /\ request.headers = <<>>
     /\ request.query_api_key = Some(MCP_API_KEY))
    => Len(calls["AuthMiddleware"]) = 1

\* C6: a request to /health, to / or to any path other than /mcp and /sse
\* is admitted whatever credentials it carries, and verify_api_key is not
\* called for it.
C6_OpenPathsAdmitted ==
    (/\ AuthDecided
     /\ request.path \in {"/health", "/"} \/ request.path \notin {"/mcp", "/sse"})
    => /\ Len(calls["AuthMiddleware"]) = 1
       /\ gave["AuthMiddleware"] # Unauthorized
       /\ verifyLog = <<>>

\* a wrong X-API-Key on /health, admitted
C6_Witness ==
    /\ request.path = "/health"
    /\ XApiKey.some /\ XApiKey.v # <<>> /\ XApiKey.v # MCP_API_KEY
    /\ handlerSaw # <<>>
    /\ gave["AuthMiddleware"].status = 200

HasEntry(v, t) ==
    \E i \in 1..Len(v) :
        /\ LowerToken(v[i]) = t
        /\ \E a \in 0..(i - 1), b \in (i + 1)..(Len(v) + 1) :
               /\ a = 0 \/ v[a] = ","
               /\ b = Len(v) + 1 \/ v[b] = ","
               /\ \A k \in (a + 1)..(i - 1) : v[k] = " "
               /\ \A k \in (i + 1)..(b - 1) : v[k] = " "

HasBothTypes(hdrs) ==
    /\ HasEntry(HeaderGet(hdrs, "accept", Some(<<>>)).v, "application/json")
    /\ HasEntry(HeaderGet(hdrs, "accept", Some(<<>>)).v, "text/event-stream")

\* C8: on /mcp the Accept header passed downstream holds application/json
\* and text/event-stream, whatever the client sent.
C8_BothTypesForwarded ==
    request.path = "/mcp" =>
        /\ AcceptForwarded =>
               HasBothTypes(calls["ForceAcceptHeaderMiddleware"][1])
        /\ handlerSaw # <<>> => HasBothTypes(handlerSaw[1])

\* the client sent application/json only
C8_Witness ==
    /\ request.path = "/mcp"
    /\ HeaderGet(request.headers, "accept", None) = Some(<<"application/json">>)
    /\ handlerSaw # <<>>
    /\ HeaderGet(handlerSaw[1], "accept", None) =
           Some(<<"application/json", ",", " ", "text/event-stream">>)

\* C9: on /mcp the rewrite applied to the headers it produced changes
\* nothing.
C9_RewriteIdempotent ==
    (request.path = "/mcp" /\ AcceptForwarded) =>
        ForceAcceptHeaders(request.type, request.path,
                           calls["ForceAcceptHeaderMiddleware"][1])
            = calls["ForceAcceptHeaderMiddleware"][1]

\* a header the first pass rewrote
C9_Witness ==
    /\ request.path = "/mcp"
    /\ AcceptForwarded
    /\ HasHeader(request.headers, "accept")
    /\ calls["ForceAcceptHeaderMiddleware"][1] # request.headers

\* C10: on every path but /mcp the headers passed downstream are the
\* headers the client sent.
C10_OtherPathsUntouched ==
    (request.path # "/mcp" /\ AcceptForwarded) =>
        /\ calls["ForceAcceptHeaderMiddleware"][1] = request.headers
        /\ headers = request.headers
        /\ handlerSaw # <<>> => handlerSaw[1] = request.headers

\* /sse with an Accept header that lacks text/event-stream
C10_Witness ==
    /\ request.path = "/sse"
    /\ HeaderGet(request.headers, "accept", None) = Some(<<"application/json">>)
    /\ handlerSaw = <<request.headers>>

\* the entries of one Accept value: its comma-separated pieces, trimmed,
\* the empty ones left out
Entries(v) ==
    LET pieces == SplitComma(v)
    IN  SelectNonEmpty([i \in 1..Len(pieces) |-> Strip(pieces[i])])

\* the entries of every Accept line, in the order of the lines
RECURSIVE AllAcceptEntries(_)
AllAcceptEntries(hdrs) ==
    IF hdrs = <<>> THEN <<>>
    ELSE (IF Head(hdrs).name = "accept" THEN Entries(Head(hdrs).value) ELSE <<>>)
         \o AllAcceptEntries(Tail(hdrs))

\* sent is kept in front, and what follows is a required media type that
\* sent lacked
OnlyAppended(sent, forwarded) ==
    /\ Len(forwarded) >= Len(sent)
    /\ SubSeq(forwarded, 1, Len(sent)) = sent
    /\ \A i \in (Len(sent) + 1)..Len(forwarded) :
           /\ forwarded[i] \in {<<"application/json">>, <<"text/event-stream">>}
           /\ \A k \in 1..Len(sent) : Lower(sent[k]) # forwarded[i]

\* C11: on /mcp the Accept entries passed downstream are every entry the
\* client sent, on all its Accept lines, in its order and casing, followed
\* only by the required media types it lacked.
C11_EntriesKept ==
    (request.path = "/mcp" /\ AcceptForwarded) =>
        OnlyAppended(AllAcceptEntries(request.headers),
                     AllAcceptEntries(calls["ForceAcceptHeaderMiddleware"][1]))

\* what ErrorHandlingMiddleware's call_next raised, once it has returned
Surfaced(class) ==
    /\ gave["ErrorHandlingMiddleware"] # NoRet
    /\ got["ErrorHandlingMiddleware"].kind = "raise"
    /\ got["ErrorHandlingMiddleware"].media = class

\* C12: when a ClosedResourceError surfaces from the inner stages,
\* ErrorHandlingMiddleware answers 499 with the plain text "Client
\* disconnected" and raises nothing.
C12_DisconnectIs499 ==
    Surfaced("ClosedResourceError") =>
        /\ gave["ErrorHandlingMiddleware"].kind = "response"
        /\ gave["ErrorHandlingMiddleware"].status = 499
        /\ gave["ErrorHandlingMiddleware"].media = "text/plain"
        /\ gave["ErrorHandlingMiddleware"].text = "Client disconnected"

\* the handler raised ClosedResourceError behind all three layers
C12_Witness ==
    /\ Surfaced("ClosedResourceError")
    /\ handlerSaw # <<>>
    /\ gave["AuthMiddleware"] = Raise("ClosedResourceError", "")
    /\ phase = "done"
    /\ ret = ClientDisconnected

\* the 500 answer: a JSON body with an error key and the description
IsServerError(r, description) ==
    /\ r.kind = "response"
    /\ r.status = 500
    /\ r.media = "application/json"
    /\ \E e \in r.json : e[1] = "error"
    /\ <<"detail", description>> \in r.json

\* C13 as claimed: every fault but ClosedResourceError that surfaces from the
\* inner stages becomes the 500 JSON answer, and ErrorHandlingMiddleware
\* raises nothing.
C13_EveryFaultIs500 ==
    (/\ gave["ErrorHandlingMiddleware"] # NoRet
     /\ got["ErrorHandlingMiddleware"].kind = "raise"
     /\ got["ErrorHandlingMiddleware"].media # "ClosedResourceError")
    => /\ IsServerError(gave["ErrorHandlingMiddleware"],
                        got["ErrorHandlingMiddleware"].text)
       /\ gave["ErrorHandlingMiddleware"].kind # "raise"

\* C13 amended: every fault of a class deriving from Exception, but
\* ClosedResourceError, becomes the 500 JSON answer with an error key and
\* the description, and no fault of such a class leaves
\* ErrorHandlingMiddleware.
C13_ExceptionsAre500 ==
    /\ (/\ gave["ErrorHandlingMiddleware"] # NoRet
         /\ got["ErrorHandlingMiddleware"].kind = "raise"
         /\ got["ErrorHandlingMiddleware"].media \in ExceptionClasses
         /\ got["ErrorHandlingMiddleware"].media # "ClosedResourceError")
        => IsServerError(gave["ErrorHandlingMiddleware"],
                         got["ErrorHandlingMiddleware"].text)
    /\ gave["ErrorHandlingMiddleware"].kind = "raise"
        => gave["ErrorHandlingMiddleware"].media \notin ExceptionClasses

\* the handler raised Exception("boom")
C13_Witness ==
    /\ Surfaced("Exception")
    /\ handlerSaw # <<>>
    /\ ret.status = 500
    /\ <<"detail", "boom">> \in ret.json
    /\ phase = "done"

Entered(layer) == calls[layer] # <<>> \/ gave[layer] # NoRet

\* AuthMiddleware returned its 401 without calling call_next
Rejected == calls["AuthMiddleware"] = <<>> /\ gave["AuthMiddleware"] # NoRet

\* C17: the layers run nested in the order ErrorHandlingMiddleware,
\* AuthMiddleware, ForceAcceptHeaderMiddleware, handler: a layer runs only
\* after the one around it called call_next, once, with what that one passed
\* on, and returns before it; a request AuthMiddleware rejects keeps its
\* headers, never enters ForceAcceptHeaderMiddleware and never reaches the
\* handler.
C17_NestingOrder ==
    /\ \A l \in Layers : Len(calls[l]) <= 1
    /\ Entered("AuthMiddleware") => calls["ErrorHandlingMiddleware"] # <<>>
    /\ Entered("ForceAcceptHeaderMiddleware") => calls["AuthMiddleware"] # <<>>
    /\ handlerSaw # <<>> =>
           /\ calls["ForceAcceptHeaderMiddleware"] # <<>>
           /\ handlerSaw[1] = calls["ForceAcceptHeaderMiddleware"][1]
    /\ gave["ForceAcceptHeaderMiddleware"] # NoRet => handlerSaw # <<>>
    /\ gave["AuthMiddleware"] # NoRet =>
           (Entered("ForceAcceptHeaderMiddleware")
                => gave["ForceAcceptHeaderMiddleware"] # NoRet)
    /\ gave["ErrorHandlingMiddleware"] # NoRet =>
           /\ phase = "done"
           /\ Entered("AuthMiddleware") => gave["AuthMiddleware"] # NoRet
    /\ Rejected =>
           /\ headers = request.headers
           /\ ~Entered("ForceAcceptHeaderMiddleware")
           /\ handlerSaw = <<>>
           /\ generateRuns = 0

\* a request to /mcp without a key whose Accept header the innermost layer
\* would have rewritten, answered with the 401
C17_Witness ==
    /\ phase = "done"
    /\ request.path = "/mcp"
    /\ Rejected
    /\ ret = Unauthorized
    /\ ForceAcceptHeaders(request.type, request.path, request.headers)
           # request.headers

\* ------------------------------------------------------- carrier priority
\* the candidate of the first carrier that yields one, in the order bearer,
\* basic, X-API-Key, query parameter
FirstCandidates ==
    IF BearerCandidates # {} THEN BearerCandidates
    ELSE IF BasicCandidates # {} THEN BasicCandidates
    ELSE IF HeaderCandidates # {} THEN HeaderCandidates
    ELSE QueryCandidates

\* AuthMiddleware called call_next
Admitted == calls["AuthMiddleware"] # <<>>

RequestTimeFaults ==
    {"disconnect in dispatch", "exception in dispatch", "ClosedResourceError"}

\* C18: after a request-time fault the server is still running; no such
\* fault ends the process.
C18_FaultsNeverStopServer ==
    lastEvent \in RequestTimeFaults => procPc = "serving"

StartupFaults == {"OPENAI_API_KEY missing", "start failed"}

\* C19: the process exits with status 0 exactly after SIGINT, SIGTERM or a
\* KeyboardInterrupt, with status 1 after a startup fault, and in no other
\* situation.
C19_ExitCodes ==
    procPc = "exited" =>
        /\ lastEvent \in ShutdownSignals \cup StartupFaults
        /\ exitCode = 0 <=> lastEvent \in ShutdownSignals
        /\ exitCode = 1 <=> lastEvent \in StartupFaults

\* ------------------------------------------------------------- generate
\* the call of generate is over: it returned or it raised
GenDone == genPc \in {"returned", "raised"}

\* C14: every call of generate ends with exactly one returned mapping and
\* never with an exception, whatever the arguments, the provider and the ctx
\* notifications do
C14_GenerateNeverRaises == GenDone => genOut.kind = "return"

\* the checks rejected the arguments, the provider raised, or it gave no
\* choice
GenFailed == genLocal.e.class \in {"ValueError", "APIError", "RuntimeError"}

\* C15: after a failed check, a provider fault or a completion without
\* choices the result has error = true, finish_reason "error", the requested
\* model and the error description as text; temperature 0 and 2 and an
\* absent max_tokens pass the checks
C15_FailureIsErrorResult ==
    /\ GenDone /\ GenFailed =>
           /\ genOut.kind = "return"
           /\ genOut.error
           /\ genOut.finish_reason = "error"
           /\ genOut.model = genArgs.model
           /\ genOut.text = <<"Error: ", genLocal.e.message>>
    /\ /\ GenDone
       /\ Strip(genArgs.prompt) # <<>>
       /\ genArgs.temperature \in {0, 20}
       /\ genArgs.max_tokens = NoneInt
       => genLocal.e.class # "ValueError"

\* the provider was called and its completion has a choice
GenCompleted == providerCalls = 1 /\ genLocal.resp.choices # <<>>

\* C16: when the provider gives at least one choice the result has no error
\* flag, the first choice's content trimmed as text ("" when it has none),
\* its finish_reason ("stop" when it has none) and the requested model
C16_SuccessResult ==
    GenDone /\ GenCompleted =>
        LET first == genLocal.resp.choices[1]
        IN  /\ genOut.kind = "return"
            /\ ~genOut.error
            /\ genOut.text = Strip(IF first.content.some
                                    THEN first.content.v ELSE <<>>)
            /\ genOut.finish_reason = IF first.finish_reason.some
                                       THEN first.finish_reason.v ELSE "stop"
            /\ genOut.model = genArgs.model

\* the arguments are valid: a prompt that is not blank, a temperature from 0
\* to 2, max_tokens absent or positive
ValidArgs ==
    /\ \E i \in 1..Len(genArgs.prompt) : genArgs.prompt[i] # " "
    /\ genArgs.temperature >= 0
    /\ genArgs.temperature <= 20
    /\ genArgs.max_tokens.some => genArgs.max_tokens.n > 0

\* C22: a call of generate calls the provider at most once, and only past
\* the three checks: with an invalid prompt, temperature or max_tokens the
\* provider is never called.
C22_ProviderAfterChecks ==
    /\ providerCalls <= 1
    /\ providerCalls = 1 =>
           /\ ValidArgs
           /\ genPc \notin {"idle", "info", "validate", "create"}
    /\ (genPc # "idle" /\ ~ValidArgs) => providerCalls = 0

\* a valid call that went to the provider once and returned
C22_Witness ==
    /\ genPc = "returned"
    /\ ValidArgs
    /\ genArgs.max_tokens = SomeInt(1)
    /\ providerCalls = 1

\* ---------------------------------------------------- requests in flight
\* what request i got is what its own inputs give
OwnOutcome(i) ==
    LET s == slots[i]
        r == s.request
    IN  /\ s.decided => s.admit = AuthDecision(r.type, r.path, r.headers).admit
        /\ s.forwarded # <<>> =>
               s.forwarded = <<ForceAcceptHeaders(r.type, r.path, r.headers)>>
        /\ s.saw # <<>> =>
               s.saw = <<ForceAcceptHeaders(r.type, r.path, r.headers)>>
        /\ s.result # NoOut => s.result = GenerateResult(s.args, s.outcome)
        /\ (s.phase = "done" /\ ~s.admit) => s.ret = Unauthorized
        /\ (s.phase = "done" /\ s.admit) => s.ret = Routed(r.path)

\* C23: in every interleaving of the requests in flight MCP_API_KEY_HASH
\* keeps its startup value, and the auth decision, the Accept header passed
\* on and the generation result of a request are those its own inputs give.
C23_RequestsIndependent ==
    /\ MCP_API_KEY_HASH = Sha256Hex(MCP_API_KEY)
    /\ \A i \in Slots : OwnOutcome(i)

\* two requests in flight: the first, to /mcp, had its Accept header
\* rewritten and waits for the provider while the second, to /sse, has been
\* rejected
C23_Witness ==
    /\ slots[1].phase = "awaiting"
    /\ slots[1].request.path = "/mcp"
    /\ slots[1].forwarded # <<slots[1].request.headers>>
    /\ slots[2].phase = "done"
    /\ slots[2].request.path = "/sse"
    /\ ~slots[2].admit

\* ---------------------------------------------------------------- proxy
\* C24: the body of the upstream response is read, and streamed to the
\* caller, only while the httpx client that sent the request is open.
C24_ReadsWhileClientOpen ==
    /\ lateReads = 0
    /\ callerGot.chunks > 0 => httpxClient = "open"

\* C25: when reading the inbound request or sending it on raised, the caller
\* gets a response with status 500 that carries str(e), never a success
\* status.
C25_FaultIs500 ==
    (proxyPc = "done" /\ proxyExc # NoExc) =>
        /\ callerGot.status = 500
        /\ callerGot.detail = proxyExc.message

====
